---- MODULE Spec2Model ----
(***************************************************************************)
(* Battery pack charging and balancing simulation (src/index.html), with   *)
(* its animation driver.                                                    *)
(*                                                                          *)
(* Number representation.  The program computes in IEEE doubles; the model  *)
(* computes the same quantities exactly, as integers in fixed units:        *)
(*   SOC          1 unit = 1/1680000           (SocOne = SOC 1.0)           *)
(*   voltage      1 unit = 1/1400000 V         (1.2 V = 1680000 units, so   *)
(*                                              the OCV slope is 1 per SOC  *)
(*                                              unit)                       *)
(*   current      1 unit = 0.0001              (I_BASE = 50)                *)
(*   capacity     1 unit = 0.1 Ah              (3.0 Ah = 30)                *)
(*   resistance   1 unit = 0.001 Ohm           (0.05 Ohm = 50)              *)
(* With these units every value the program computes from the pack of       *)
(* initCells is an integer (I/capacity and I*R divide exactly).  On the four *)
(* runs from initCells the doubles of the program stay within 1e-13 of the  *)
(* exact SOCs and every comparison of updateSimulation has the same outcome *)
(* in both, but for the clamp at 1, which rounding can trigger where the    *)
(* exact sum is exactly 1, with the same result.                            *)
(* Cell indices are 1..3 here and 0..2 in the program.                      *)
(***************************************************************************)
EXTENDS Integers, Sequences, FiniteSets, TLC

VARIABLES simulationCase, phase, chargingActive, simulationRunning, cells,
          pending, pc, steps, doneCalls

vars == <<simulationCase, phase, chargingActive, simulationRunning, cells,
          pending, pc, steps, doneCalls>>

\* SOC 1.0, the upper clamp value of the program
SocOne == 1680000
\* SOC 0.99, the "nearly full" threshold of the end condition
SocFull == 1663200

V_MIN == 4200000
V_MAX == 5880000
OVP == 5880000
I_BASE == 50
dPassive == 1680
dActive == 1680
tolVoltage == 7000

\* Bounds of the model
MaxPending == 2
MaxSteps == 2000
MaxDoneCalls == 2

\* The values of the <option> elements of the case selector
ValidCases == {1, 2, 3, 4}
\* Values a caller can hand to reset, the selectable ones and two others
AnyCases == {0, 1, 2, 3, 4, 5}

Phases == {"charging", "balancing", "done"}

MaxOf(S) == CHOOSE x \in S : \A y \in S : y <= x
MinOf(S) == CHOOSE x \in S : \A y \in S : x <= y
Range(f) == {f[i] : i \in DOMAIN f}

----------------------------------------------------------------------------
\* The pack

initCells ==
  << [capacity |-> 30, SOC |-> 1176000, R |-> 50],
     [capacity |-> 25, SOC |-> 840000,  R |-> 80],
     [capacity |-> 35, SOC |-> 1512000, R |-> 30] >>

\* V_MIN + (V_MAX - V_MIN) * cell.SOC, the SOC being cell.SOC / SocOne; the
\* quotient is taken first (it is exact: the slope is 1 voltage unit per SOC
\* unit), which keeps the product within TLC's integers
getOCV(cell) == V_MIN + ((V_MAX - V_MIN) \div SocOne) * cell.SOC

\* current * R is in units of 1e-7 V; 1e-7 V = 14/100 voltage units
IRDrop(cell, current) == (current * cell.R * 14) \div 100

\* Mutant: the IR drop added whether or not the pack is charging
getMeasuredVoltageAlwaysIR(cell, current, active) ==
  getOCV(cell) + IRDrop(cell, current)

\* `active` is the value of the global chargingActive at the time of the call
getMeasuredVoltage(cell, current, active) ==
  getOCV(cell) + (IF active THEN IRDrop(cell, current) ELSE 0)

Voltages(cs, current, active) ==
  [i \in DOMAIN cs |-> getMeasuredVoltage(cs[i], current, active)]

Spread(v) == MaxOf(Range(v)) - MinOf(Range(v))

----------------------------------------------------------------------------
\* The engine.  A record s = [simulationCase, phase, chargingActive, cells]
\* is the value of the program's globals at one point of updateSimulation.

EngineState ==
  [simulationCase |-> simulationCase, phase |-> phase,
   chargingActive |-> chargingActive, cells |-> cells]

\* Mutant: the regulation cuts the current off
ReducedCurrentZero == (I_BASE * 0) \div 10

\* I_BASE * 0.1
ReducedCurrent == (I_BASE * 1) \div 10

RECURSIVE ScanMaxV(_, _, _)
ScanMaxV(v, i, maxV) ==
  IF i > Len(v) THEN maxV
  ELSE ScanMaxV(v, i + 1, IF v[i] > maxV THEN v[i] ELSE maxV)

\* Mutant: the two branches exchanged
getChargingCurrentCase4Swapped(cs, active) ==
  LET maxV == ScanMaxV(Voltages(cs, I_BASE, active), 1, 0)
  IN  IF maxV >= OVP THEN I_BASE ELSE ReducedCurrent

getChargingCurrentCase4(cs, active) ==
  LET maxV == ScanMaxV(Voltages(cs, I_BASE, active), 1, 0)
  IN  IF maxV >= OVP THEN ReducedCurrent ELSE I_BASE

\* Mutant: the increment without the clamp at 1
ChargeCellNoClamp(cell, current) ==
  [cell EXCEPT !.SOC = @ + (current * SocOne) \div (1000 * cell.capacity)]

\* Mutant: the increment subtracted
ChargeCellMinus(cell, current) ==
  LET soc == cell.SOC - (current * SocOne) \div (1000 * cell.capacity)
  IN  [cell EXCEPT !.SOC = IF soc > SocOne THEN SocOne ELSE soc]

\* cell.SOC += I / cell.capacity; if (cell.SOC > 1) cell.SOC = 1
\* Mutant: a SOC above 1 is set to 0
ChargeCellClampZero(cell, current) ==
  LET soc == cell.SOC + (current * SocOne) \div (1000 * cell.capacity)
  IN  [cell EXCEPT !.SOC = IF soc > SocOne THEN 0 ELSE soc]

ChargeCell(cell, current) ==
  LET soc == cell.SOC + (current * SocOne) \div (1000 * cell.capacity)
  IN  [cell EXCEPT !.SOC = IF soc > SocOne THEN SocOne ELSE soc]

\* Mutant: every cell charged as if it had the first cell's capacity
ChargeCellsUniform(cs, current) ==
  [i \in DOMAIN cs |->
     ChargeCell([cs[i] EXCEPT !.capacity = cs[1].capacity], current)]

ChargeCells(cs, current) == [i \in DOMAIN cs |-> ChargeCell(cs[i], current)]

\* Mutant: the trip tests the open-circuit voltage, strictly
OvervoltageTripOCV(s, current) ==
  IF \E i \in DOMAIN s.cells : getOCV(s.cells[i]) > OVP
  THEN [s EXCEPT !.chargingActive = FALSE, !.phase = "balancing"]
  ELSE s

\* Mutant: the trip changes the phase and leaves chargingActive as it is
OvervoltageTripPhaseOnly(s, current) ==
  IF \E i \in DOMAIN s.cells :
       getMeasuredVoltage(s.cells[i], current, s.chargingActive) >= OVP
  THEN [s EXCEPT !.phase = "balancing"]
  ELSE s

OvervoltageTrip(s, current) ==
  IF \E i \in DOMAIN s.cells :
       getMeasuredVoltage(s.cells[i], current, s.chargingActive) >= OVP
  THEN [s EXCEPT !.chargingActive = FALSE, !.phase = "balancing"]
  ELSE s

\* The forEach scans: an index is replaced only on a strict comparison
RECURSIVE ScanMaxIndex(_, _, _, _)
ScanMaxIndex(v, i, maxVoltage, maxIndex) ==
  IF i > Len(v) THEN maxIndex
  ELSE IF v[i] > maxVoltage THEN ScanMaxIndex(v, i + 1, v[i], i)
  ELSE ScanMaxIndex(v, i + 1, maxVoltage, maxIndex)

RECURSIVE ScanMinIndex(_, _, _, _)
ScanMinIndex(v, i, minVoltage, minIndex) ==
  IF i > Len(v) THEN minIndex
  ELSE IF v[i] < minVoltage THEN ScanMinIndex(v, i + 1, v[i], i)
  ELSE ScanMinIndex(v, i + 1, minVoltage, minIndex)

\* Mutant: the scan for the maximum replaces the index on >=, so that the
\* last of several equal maxima wins
RECURSIVE ScanMaxIndexLast(_, _, _, _)
ScanMaxIndexLast(v, i, maxVoltage, maxIndex) ==
  IF i > Len(v) THEN maxIndex
  ELSE IF v[i] >= maxVoltage THEN ScanMaxIndexLast(v, i + 1, v[i], i)
  ELSE ScanMaxIndexLast(v, i + 1, maxVoltage, maxIndex)

MaxIndexLast(v) == ScanMaxIndexLast(v, 1, v[1], 1)

MaxIndex(v) == ScanMaxIndex(v, 1, v[1], 1)
MinIndex(v) == ScanMinIndex(v, 1, v[1], 1)

\* Mutant: the donor loses dActive and the receiver gains nothing
TransferDonorOnly(cs, maxIndex, minIndex) ==
  LET c1 == [cs EXCEPT ![maxIndex].SOC = @ - dActive]
      c3 == IF c1[maxIndex].SOC < 0 THEN [c1 EXCEPT ![maxIndex].SOC = 0] ELSE c1
  IN  c3

\* Mutant: the donor is charged twice for the transfer
TransferDonorTwice(cs, maxIndex, minIndex) ==
  LET c1 == [cs EXCEPT ![maxIndex].SOC = @ - 2 * dActive]
      c2 == [c1 EXCEPT ![minIndex].SOC = @ + dActive]
      c3 == IF c2[maxIndex].SOC < 0 THEN [c2 EXCEPT ![maxIndex].SOC = 0] ELSE c2
      c4 == IF c3[minIndex].SOC > SocOne THEN [c3 EXCEPT ![minIndex].SOC = SocOne] ELSE c3
  IN  c4

\* The four statements of a transfer, in program order
Transfer(cs, maxIndex, minIndex) ==
  LET c1 == [cs EXCEPT ![maxIndex].SOC = @ - dActive]
      c2 == [c1 EXCEPT ![minIndex].SOC = @ + dActive]
      c3 == IF c2[maxIndex].SOC < 0 THEN [c2 EXCEPT ![maxIndex].SOC = 0] ELSE c2
      c4 == IF c3[minIndex].SOC > SocOne THEN [c3 EXCEPT ![minIndex].SOC = SocOne] ELSE c3
  IN  c4

\* Case 3: active equalization during charging
Equalize(s, current) ==
  LET v == Voltages(s.cells, current, s.chargingActive)
      maxIndex == MaxIndex(v)
      minIndex == MinIndex(v)
  IN  IF v[maxIndex] - v[minIndex] > tolVoltage
      THEN [s EXCEPT !.cells = Transfer(s.cells, maxIndex, minIndex)]
      ELSE s

\* Mutant: the overvoltage trip applied in every case
ChargingPhaseTripAll(s) ==
  LET I_effective == IF s.simulationCase = 4
                     THEN getChargingCurrentCase4(s.cells, s.chargingActive)
                     ELSE I_BASE
      s1 == IF s.chargingActive
            THEN [s EXCEPT !.cells = ChargeCells(s.cells, I_effective)]
            ELSE s
      s2 == OvervoltageTrip(s1, I_effective)
      s3 == IF s2.simulationCase = 3 THEN Equalize(s2, I_effective) ELSE s2
  IN  s3

\* Mutant: the overvoltage check made before the increment
ChargingPhaseTripFirst(s) ==
  LET I_effective == IF s.simulationCase = 4
                     THEN getChargingCurrentCase4(s.cells, s.chargingActive)
                     ELSE I_BASE
      s1 == IF s.simulationCase = 1 \/ s.simulationCase = 2
            THEN OvervoltageTrip(s, I_effective)
            ELSE s
      s2 == IF s.chargingActive
            THEN [s1 EXCEPT !.cells = ChargeCells(s.cells, I_effective)]
            ELSE s1
      s3 == IF s2.simulationCase = 3 THEN Equalize(s2, I_effective) ELSE s2
  IN  s3

\* Mutant: the equalization of case 3 made before the increment
ChargingPhaseEqualizeFirst(s) ==
  LET I_effective == IF s.simulationCase = 4
                     THEN getChargingCurrentCase4(s.cells, s.chargingActive)
                     ELSE I_BASE
      s1 == IF s.simulationCase = 3 THEN Equalize(s, I_effective) ELSE s
      s2 == IF s1.chargingActive
            THEN [s1 EXCEPT !.cells = ChargeCells(s1.cells, I_effective)]
            ELSE s1
      s3 == IF s2.simulationCase = 1 \/ s2.simulationCase = 2
            THEN OvervoltageTrip(s2, I_effective)
            ELSE s2
  IN  s3

ChargingPhase(s) ==
  LET I_effective == IF s.simulationCase = 4
                     THEN getChargingCurrentCase4(s.cells, s.chargingActive)
                     ELSE I_BASE
      s1 == IF s.chargingActive
            THEN [s EXCEPT !.cells = ChargeCells(s.cells, I_effective)]
            ELSE s
      s2 == IF s1.simulationCase = 1 \/ s1.simulationCase = 2
            THEN OvervoltageTrip(s1, I_effective)
            ELSE s1
      s3 == IF s2.simulationCase = 3 THEN Equalize(s2, I_effective) ELSE s2
  IN  s3

\* Mutant: every cell above the minimum is discharged, the tolerance left out
PassiveBalanceNoTol(s) ==
  LET v == Voltages(s.cells, 0, s.chargingActive)
      minVoltage == MinOf(Range(v))
  IN  [s EXCEPT !.cells =
         [i \in DOMAIN s.cells |->
            IF v[i] > minVoltage
            THEN [s.cells[i] EXCEPT !.SOC =
                    IF @ - dPassive < 0 THEN 0 ELSE @ - dPassive]
            ELSE s.cells[i]]]

\* Case 1: passive balancing
PassiveBalance(s) ==
  LET v == Voltages(s.cells, 0, s.chargingActive)
      minVoltage == MinOf(Range(v))
  IN  [s EXCEPT !.cells =
         [i \in DOMAIN s.cells |->
            IF v[i] > minVoltage + tolVoltage
            THEN [s.cells[i] EXCEPT !.SOC =
                    IF @ - dPassive < 0 THEN 0 ELSE @ - dPassive]
            ELSE s.cells[i]]]

\* Mutant: donor and receiver exchanged
ActiveBalanceExchanged(s) ==
  LET v == Voltages(s.cells, 0, s.chargingActive)
      maxIndex == MaxIndex(v)
      minIndex == MinIndex(v)
  IN  IF v[maxIndex] - v[minIndex] > tolVoltage
      THEN [s EXCEPT !.cells = Transfer(s.cells, minIndex, maxIndex)]
      ELSE s

\* Case 2: active balancing
ActiveBalance(s) ==
  LET v == Voltages(s.cells, 0, s.chargingActive)
      maxIndex == MaxIndex(v)
      minIndex == MinIndex(v)
  IN  IF v[maxIndex] - v[minIndex] > tolVoltage
      THEN [s EXCEPT !.cells = Transfer(s.cells, maxIndex, minIndex)]
      ELSE s

\* Mutant: balancing ends only at half the tolerance
BalancingDoneHalfTol(s) ==
  IF Spread(Voltages(s.cells, 0, s.chargingActive)) < tolVoltage \div 2
  THEN [s EXCEPT !.phase = "done"]
  ELSE s

BalancingDone(s) ==
  IF Spread(Voltages(s.cells, 0, s.chargingActive)) < tolVoltage
  THEN [s EXCEPT !.phase = "done"]
  ELSE s

BalancingPhase(s) ==
  LET s1 == IF s.simulationCase = 1 THEN PassiveBalance(s)
            ELSE IF s.simulationCase = 2 THEN ActiveBalance(s)
            ELSE s
  IN  BalancingDone(s1)

\* Mutant: the end condition with the comparison of the spread reversed
EndConditionReversed(s) ==
  IF (s.simulationCase = 3 \/ s.simulationCase = 4) /\ s.phase = "charging"
  THEN LET currentForCalc ==
             IF s.simulationCase = 4 /\ s.chargingActive
             THEN getChargingCurrentCase4(s.cells, s.chargingActive)
             ELSE I_BASE
           voltages == Voltages(s.cells, currentForCalc, s.chargingActive)
           allFull == \A i \in DOMAIN s.cells : s.cells[i].SOC >= SocFull
       IN  IF allFull /\ Spread(voltages) > tolVoltage
           THEN [s EXCEPT !.phase = "done"]
           ELSE s
  ELSE s

\* End condition for cases 3 and 4
\* Mutant: one full cell is enough for the end condition
EndConditionSomeFull(s) ==
  IF (s.simulationCase = 3 \/ s.simulationCase = 4) /\ s.phase = "charging"
  THEN LET currentForCalc ==
             IF s.simulationCase = 4 /\ s.chargingActive
             THEN getChargingCurrentCase4(s.cells, s.chargingActive)
             ELSE I_BASE
           voltages == Voltages(s.cells, currentForCalc, s.chargingActive)
           someFull == \E i \in DOMAIN s.cells : s.cells[i].SOC >= SocFull
       IN  IF someFull /\ Spread(voltages) < tolVoltage
           THEN [s EXCEPT !.phase = "done"]
           ELSE s
  ELSE s

EndCondition(s) ==
  IF (s.simulationCase = 3 \/ s.simulationCase = 4) /\ s.phase = "charging"
  THEN LET currentForCalc ==
             IF s.simulationCase = 4 /\ s.chargingActive
             THEN getChargingCurrentCase4(s.cells, s.chargingActive)
             ELSE I_BASE
           voltages == Voltages(s.cells, currentForCalc, s.chargingActive)
           allFull == \A i \in DOMAIN s.cells : s.cells[i].SOC >= SocFull
       IN  IF allFull /\ Spread(voltages) < tolVoltage
           THEN [s EXCEPT !.phase = "done"]
           ELSE s
  ELSE s

\* Mutant: the charging branch taken whenever the phase is not balancing
updateSimulationNoPhaseGuard(s) ==
  EndCondition(IF s.phase = "balancing" THEN BalancingPhase(s)
               ELSE ChargingPhase(s))

updateSimulation(s) ==
  EndCondition(IF s.phase = "charging" THEN ChargingPhase(s)
               ELSE IF s.phase = "balancing" THEN BalancingPhase(s)
               ELSE s)

----------------------------------------------------------------------------
\* The driver: the reset button's handler and the animation-frame callback.
\* pending is the number of animate callbacks handed to requestAnimationFrame
\* and not yet run.  pc = "reset" is the point of resetSimulation at which the
\* globals are set and animate() is about to be called; no other handler runs
\* there.  Since the last reset, steps counts the calls of updateSimulation
\* made with another phase than done, and doneCalls those made with phase done.

\* The assignments of resetSimulation before its call of animate
ResetState(c) ==
  [simulationCase |-> c, phase |-> "charging", chargingActive |-> TRUE,
   cells |-> initCells]

\* animate with `pend` callbacks pending besides the one (if any) running
animate(s, running, pend) ==
  IF ~running
  THEN [s |-> s, running |-> running, pend |-> pend]
  ELSE LET t == updateSimulation(s)
       IN  IF t.phase # "done"
           THEN [s |-> t, running |-> TRUE, pend |-> pend + 1]
           ELSE [s |-> t, running |-> FALSE, pend |-> pend]

SetEngine(s) ==
  /\ simulationCase' = s.simulationCase
  /\ phase' = s.phase
  /\ chargingActive' = s.chargingActive
  /\ cells' = s.cells

\* One more call of updateSimulation is within the bounds
CallAllowed ==
  IF phase = "done" THEN doneCalls < MaxDoneCalls ELSE steps < MaxSteps

CountCall ==
  /\ steps' = IF phase = "done" THEN steps ELSE steps + 1
  /\ doneCalls' = IF phase = "done" THEN doneCalls + 1 ELSE doneCalls

\* The page as loaded: the globals' declarations, then resetSimulation() with
\* the selector's first option
InitCase(c) ==
  LET r == animate(ResetState(c), TRUE, 0)
  IN  /\ simulationCase = r.s.simulationCase
      /\ phase = r.s.phase
      /\ chargingActive = r.s.chargingActive
      /\ cells = r.s.cells
      /\ simulationRunning = r.running
      /\ pending = r.pend
      /\ pc = "idle"
      /\ steps = 1
      /\ doneCalls = 0

Init == InitCase(1)

\* Mutant: resetSimulation without its call of initCells
resetSimulationKeepPack(c) ==
  /\ pc = "idle"
  /\ pending < MaxPending
  /\ simulationCase' = c
  /\ phase' = "charging"
  /\ chargingActive' = TRUE
  /\ simulationRunning' = TRUE
  /\ pc' = "reset"
  /\ steps' = 0
  /\ doneCalls' = 0
  /\ UNCHANGED <<cells, pending>>

\* resetSimulation up to its call of animate
resetSimulation(c) ==
  /\ pc = "idle"
  /\ pending < MaxPending
  /\ SetEngine(ResetState(c))
  /\ simulationRunning' = TRUE
  /\ pc' = "reset"
  /\ steps' = 0
  /\ doneCalls' = 0
  /\ UNCHANGED pending

\* the call of animate that ends resetSimulation
resetAnimate ==
  /\ pc = "reset"
  /\ LET r == animate(EngineState, simulationRunning, pending)
     IN  /\ SetEngine(r.s)
         /\ simulationRunning' = r.running
         /\ pending' = r.pend
  /\ pc' = "idle"
  /\ CountCall

\* a pending animate callback runs
animateFrame ==
  /\ pc = "idle"
  /\ pending > 0
  /\ simulationRunning => CallAllowed
  /\ LET r == animate(EngineState, simulationRunning, pending - 1)
     IN  /\ SetEngine(r.s)
         /\ simulationRunning' = r.running
         /\ pending' = r.pend
  /\ IF simulationRunning THEN CountCall ELSE UNCHANGED <<steps, doneCalls>>
  /\ UNCHANGED pc

\* updateSimulation called on its own (the engine's step operation)
step ==
  /\ pc = "idle"
  /\ CallAllowed
  /\ SetEngine(updateSimulation(EngineState))
  /\ CountCall
  /\ UNCHANGED <<simulationRunning, pending, pc>>

Next ==
  \/ \E c \in ValidCases : resetSimulation(c)
  \/ resetAnimate
  \/ animateFrame
  \/ step

Spec == Init /\ [][Next]_vars

TypeOK ==
  /\ simulationCase \in AnyCases
  /\ phase \in Phases
  /\ chargingActive \in BOOLEAN
  /\ simulationRunning \in BOOLEAN
  /\ Len(cells) = 3
  /\ pending \in 0..(MaxPending + 1)
  /\ pc \in {"idle", "reset"}
  /\ steps \in 0..MaxSteps
  /\ doneCalls \in 0..MaxDoneCalls

----------------------------------------------------------------------------
\* reset with any identifier: resetSimulation takes whatever number the
\* selector's value parses to

NextAny ==
  \/ \E c \in AnyCases : resetSimulation(c)
  \/ resetAnimate
  \/ animateFrame
  \/ step

SpecAny == Init /\ [][NextAny]_vars

----------------------------------------------------------------------------
\* One run: after resetSimulation with a case of the selector, only the
\* animation frames run.  The browser runs every callback handed to
\* requestAnimationFrame, hence the weak fairness of animateFrame.

LiveInit == \E c \in ValidCases : InitCase(c)

LiveNext == animateFrame

LiveSpec == LiveInit /\ [][LiveNext]_vars /\ WF_vars(animateFrame)

----------------------------------------------------------------------------
\* updateSimulation on any pack of three cells: each cell is of one of the
\* three kinds of initCells, with a SOC of 0.99, 0.995 or 1, in a state of
\* active balancing (case 2) or of charging with equalization (case 3)

PackSocs == {SocFull, (SocFull + SocOne) \div 2, SocOne}

PackCells ==
  {[capacity |-> initCells[k].capacity, SOC |-> soc, R |-> initCells[k].R] :
     k \in DOMAIN initCells, soc \in PackSocs}

PackInit ==
  /\ simulationCase \in {2, 3}
  /\ phase = IF simulationCase = 2 THEN "balancing" ELSE "charging"
  /\ chargingActive = (simulationCase = 3)
  /\ cells \in [1..3 -> PackCells]
  /\ simulationRunning = TRUE
  /\ pending = 1
  /\ pc = "idle"
  /\ steps = 0
  /\ doneCalls = 0

PackNext == step

SpecPack == PackInit /\ [][PackNext]_vars

----------------------------------------------------------------------------
\* Properties

\* A step of the run in progress, as opposed to the start of a new run
InRun == pc' # "reset"

\* A step in which updateSimulation is called: the call of animate that ends
\* resetSimulation, a frame callback of a running simulation, or a call of
\* updateSimulation on its own
UpdateCalled ==
  pc' = "idle" /\ (pc = "reset" \/ simulationRunning \/ pending' = pending)

\* C1: in every state reachable from a reset with a case of 1..4 by any number
\* of steps, every cell's SOC is between 0 and 1, also right after an active
\* transfer, which clamps only the donor from below and the receiver from above.
C1_SocInRange ==
  \A i \in DOMAIN cells : 0 <= cells[i].SOC /\ cells[i].SOC <= SocOne

\* The state after the first transfer of active balancing: the 3.5 Ah cell,
\* full at the trip, has given dActive to the 2.5 Ah cell
C1_Witness ==
  /\ simulationCase = 2 /\ phase = "balancing"
  /\ cells[3].SOC = SocOne - dActive
  /\ cells[2].SOC = (64 * SocOne) \div 100 + dActive

\* C2: within a run a step changes the phase only from charging to balancing
\* (cases 1, 2), from charging to done (cases 3, 4) or from balancing to done
\* (cases 1, 2); cases 3 and 4 are never in phase balancing.
C2_PhaseTransitions ==
  /\ [][InRun =>
          \/ phase' = phase
          \/ phase = "charging" /\ phase' = "balancing" /\ simulationCase \in {1, 2}
          \/ phase = "charging" /\ phase' = "done" /\ simulationCase \in {3, 4}
          \/ phase = "balancing" /\ phase' = "done" /\ simulationCase \in {1, 2}]_vars
  /\ [](simulationCase \in {3, 4} => phase # "balancing")

C2_Witness ==
  simulationCase \in {3, 4} /\ phase = "done" /\ simulationRunning = FALSE

\* C3: with phase done a call of updateSimulation changes neither the phase,
\* nor chargingActive, nor the case, nor any field of any cell, however often
\* it is repeated.
C3_DoneIsFrozen ==
  [][(phase = "done" /\ InRun) =>
       UNCHANGED <<simulationCase, phase, chargingActive, cells>>]_vars

\* updateSimulation has been called MaxDoneCalls times in phase done
C3_Witness == phase = "done" /\ doneCalls = MaxDoneCalls

\* C4: a reset with an identifier outside 1..4 fails and starts no run, so no
\* simulation ever runs with such a case.
C4_InvalidCaseRejected ==
  simulationRunning => simulationCase \in ValidCases

C6_Case1Terminates ==
  /\ [](simulationCase = 1 /\ phase # "done" => steps < MaxSteps)
  /\ [][simulationCase = 1 /\ InRun /\ phase # "done" /\ phase' = "done"
          => phase = "balancing"]_vars
  /\ [](simulationCase = 1 /\ phase = "done" =>
          /\ Spread(Voltages(cells, I_BASE, chargingActive)) < 7000
          /\ \A i \in DOMAIN cells : 0 <= cells[i].SOC /\ cells[i].SOC <= SocOne)

\* The loop of a case-1 run has stopped at phase done
C6_Witness ==
  /\ simulationCase = 1 /\ phase = "done" /\ simulationRunning = FALSE
  /\ pending = 0 /\ chargingActive = FALSE /\ steps > 1

\* C7: a run of case 3 reaches phase done after finitely many steps (fewer than
\* MaxSteps calls of updateSimulation), directly from phase charging and
\* without ever being in phase balancing; in the final state every SOC is
\* >= 0.99 and the spread of the measured voltages is < tolVoltage.
C7_Case3Terminates ==
  /\ [](simulationCase = 3 => phase # "balancing")
  /\ [](simulationCase = 3 /\ phase # "done" => steps < MaxSteps)
  /\ [][simulationCase = 3 /\ InRun /\ phase # "done" /\ phase' = "done"
          => phase = "charging"]_vars
  /\ [](simulationCase = 3 /\ phase = "done" =>
          /\ \A i \in DOMAIN cells : cells[i].SOC >= (99 * SocOne) \div 100
          /\ Spread(Voltages(cells, I_BASE, chargingActive)) < tolVoltage)

\* The loop of a case-3 run has stopped at phase done, still charging
C7_Witness ==
  /\ simulationCase = 3 /\ phase = "done" /\ simulationRunning = FALSE
  /\ pending = 0 /\ chargingActive = TRUE /\ steps > 1

\* The current of case 4 as the regulation rule states it: 0.0005 if some
\* cell's measured voltage at I_BASE is >= 4.2 V, and 0.005 otherwise
C8_Current ==
  IF MaxOf({getMeasuredVoltage(cells[i], I_BASE, chargingActive) :
              i \in DOMAIN cells}) >= 5880000
  THEN 5 ELSE 50

\* C8: in every state of a case-4 run getChargingCurrentCase4 returns
\* I_BASE * 0.1 if the largest measured voltage at I_BASE is >= OVP and I_BASE
\* otherwise, and a charging step of case 4 adds to every SOC this current,
\* taken from the SOCs before the step, over the capacity (clamped at 1).
C8_RegulatedCurrent ==
  /\ [](simulationCase = 4 =>
          getChargingCurrentCase4(cells, chargingActive) = C8_Current)
  /\ [][(simulationCase = 4 /\ phase = "charging" /\ chargingActive /\ UpdateCalled)
          => \A i \in DOMAIN cells :
               LET soc == cells[i].SOC
                            + (C8_Current * SocOne) \div (1000 * cells[i].capacity)
               IN  cells'[i].SOC = IF soc > SocOne THEN SocOne ELSE soc]_vars

\* Case 4 under regulation: the 3.5 Ah cell is full and the 2.5 Ah cell has
\* charged on from the 0.64 it had when the regulation began
C8_Witness ==
  /\ simulationCase = 4 /\ phase = "charging"
  /\ cells[3].SOC = SocOne
  /\ cells[2].SOC > (64 * SocOne) \div 100
  /\ getChargingCurrentCase4(cells, chargingActive) = ReducedCurrent

\* Currents the measured voltage is evaluated at: 0, 0.0005, 0.005 and 0.01
C9_Currents == {0, 5, 50, 100}

\* C9: when chargingActive is false the measured voltage of every cell is its
\* open-circuit voltage V_MIN + (V_MAX - V_MIN) * soc whatever current is given;
\* when chargingActive is true it is this plus current * R.
C9_MeasuredVoltage ==
  \A i \in DOMAIN cells : \A x \in C9_Currents :
    LET ocv == V_MIN + ((V_MAX - V_MIN) \div SocOne) * cells[i].SOC
    IN  getMeasuredVoltage(cells[i], x, chargingActive) =
          IF chargingActive THEN ocv + (x * cells[i].R * 14) \div 100 ELSE ocv

\* Passive balancing is under way, chargingActive is false
C9_Witness ==
  /\ chargingActive = FALSE /\ phase = "balancing" /\ simulationCase = 1
  /\ \A i \in DOMAIN cells :
       getMeasuredVoltage(cells[i], I_BASE, chargingActive) = getOCV(cells[i])

\* The lowest index holding the largest (smallest) value of v
C10_FirstMax(v) ==
  CHOOSE i \in DOMAIN v :
    v[i] = MaxOf(Range(v)) /\ \A j \in DOMAIN v : j < i => v[j] < v[i]

C10_FirstMin(v) ==
  CHOOSE i \in DOMAIN v :
    v[i] = MinOf(Range(v)) /\ \A j \in DOMAIN v : j < i => v[j] > v[i]

\* The pack and its measured voltages at the time donor and receiver are
\* selected: in case 3 after the step's increment, in case 2 as the step finds it
C10_Selecting ==
  \/ simulationCase = 2 /\ phase = "balancing"
  \/ simulationCase = 3 /\ phase = "charging"

C10_Pack ==
  IF simulationCase = 3 /\ chargingActive THEN ChargeCells(cells, I_BASE) ELSE cells

C10_Voltages ==
  Voltages(C10_Pack, IF simulationCase = 3 THEN I_BASE ELSE 0, chargingActive)

\* C10: when several cells share the largest measured voltage the donor of a
\* transfer (case 2 balancing, case 3 equalization) is the one of lowest index,
\* and when several share the smallest the receiver is the one of lowest index,
\* for every pack of three cells: the step takes dActive from that donor and
\* gives it to that receiver, and changes no other cell.
C10_TieBreak ==
  [][(UpdateCalled /\ C10_Selecting /\ Spread(C10_Voltages) > tolVoltage) =>
       LET donor == C10_FirstMax(C10_Voltages)
           receiver == C10_FirstMin(C10_Voltages)
       IN  cells' =
             [i \in DOMAIN cells |->
                IF i = donor
                THEN [C10_Pack[i] EXCEPT !.SOC = IF @ < dActive THEN 0 ELSE @ - dActive]
                ELSE IF i = receiver
                THEN [C10_Pack[i] EXCEPT !.SOC =
                        IF @ + dActive > SocOne THEN SocOne ELSE @ + dActive]
                ELSE C10_Pack[i]]]_vars

\* A pack about to be balanced in which two cells share the largest voltage
C10_Witness ==
  /\ C10_Selecting /\ steps = 0
  /\ Spread(C10_Voltages) > tolVoltage
  /\ \E i, j \in DOMAIN cells :
       /\ i < j
       /\ C10_Voltages[i] = C10_Voltages[j]
       /\ C10_Voltages[i] = MaxOf(Range(C10_Voltages))

\* No transfer is applied by a case-3 step from this state: after the
\* increment the measured voltages are within tolVoltage of each other
C11_NoTransfer ==
  Spread(Voltages(ChargeCells(cells, I_BASE), I_BASE, chargingActive)) <= tolVoltage

\* C11: a step taken with phase charging and chargingActive true, in which no
\* overvoltage trip occurs and no transfer is applied, lowers no cell's SOC
\* (cases 1, 2 and 4, and the steps of case 3 without transfer).
C11_ChargingMonotone ==
  [][(/\ UpdateCalled /\ phase = "charging" /\ chargingActive
      /\ phase' # "balancing"
      /\ (simulationCase = 3 => C11_NoTransfer))
       => \A i \in DOMAIN cells : cells'[i].SOC >= cells[i].SOC]_vars

\* A case-3 state, reached by charging, whose next step applies no transfer
C11_Witness ==
  /\ simulationCase = 3 /\ phase = "charging" /\ chargingActive /\ pc = "idle"
  /\ steps > 1 /\ steps < MaxSteps
  /\ C11_NoTransfer

\* C12: whatever the interleaving of reset clicks and frame callbacks, at most
\* one animate callback is pending at any time.
C12_OnePendingFrame == pending <= 1

\* The pack after the increment of a charging step at I_BASE, written out
C13_Charged ==
  [i \in DOMAIN cells |->
     LET soc == cells[i].SOC + (I_BASE * SocOne) \div (1000 * cells[i].capacity)
     IN  [cells[i] EXCEPT !.SOC = IF soc > SocOne THEN SocOne ELSE soc]]

\* Some cell of the pack cs, charging at I_BASE, measures OVP or more
C13_Over(cs) ==
  \E i \in DOMAIN cs : V_MIN + cs[i].SOC + (I_BASE * cs[i].R * 14) \div 100 >= OVP

\* C13: in cases 1 and 2 the overvoltage check is made in the step of the
\* increment, after it: if a cell then measures OVP or more at I_BASE the step
\* sets chargingActive false and phase balancing, otherwise both stay.  So in
\* every state of cases 1 and 2 with phase charging every cell measures less
\* than OVP at I_BASE.
C13_OvervoltageProtection ==
  /\ [][(UpdateCalled /\ simulationCase \in {1, 2} /\ phase = "charging"
           /\ chargingActive) =>
          /\ cells' = C13_Charged
          /\ IF C13_Over(C13_Charged)
             THEN phase' = "balancing" /\ chargingActive' = FALSE
             ELSE phase' = "charging" /\ chargingActive' = TRUE]_vars
  /\ [](simulationCase \in {1, 2} /\ phase = "charging" =>
          \A i \in DOMAIN cells :
            getMeasuredVoltage(cells[i], I_BASE, chargingActive) < OVP)

\* The state the trip leaves in case 2: the 3.5 Ah cell is full, charging is
\* off, and nothing has been balanced yet
C13_Witness ==
  /\ simulationCase = 2 /\ phase = "balancing" /\ chargingActive = FALSE
  /\ cells[3].SOC = SocOne
  /\ C13_Over(cells)

\* The open-circuit voltages of the pack, and the smallest of them
C14_OCV == [i \in DOMAIN cells |-> V_MIN + cells[i].SOC]
C14_MinVoltage == MinOf(Range(C14_OCV))

\* C14: a passive balancing step (case 1, phase balancing) lowers by dPassive
\* (not below 0) the SOC of every cell whose open-circuit voltage exceeds the
\* pack's smallest by more than tolVoltage, and leaves every other cell as it
\* is; no SOC rises, and the cell of smallest voltage keeps its SOC, and the
\* pack its smallest voltage, throughout the balancing.
C14_PassiveStep ==
  [][(UpdateCalled /\ simulationCase = 1 /\ phase = "balancing") =>
       /\ \A i \in DOMAIN cells :
            /\ cells'[i] =
                 IF C14_OCV[i] > C14_MinVoltage + tolVoltage
                 THEN [cells[i] EXCEPT !.SOC = IF @ < dPassive THEN 0 ELSE @ - dPassive]
                 ELSE cells[i]
            /\ cells'[i].SOC <= cells[i].SOC
            /\ C14_OCV[i] = C14_MinVoltage => cells'[i].SOC = cells[i].SOC
       /\ MinOf({V_MIN + cells'[i].SOC : i \in DOMAIN cells}) = C14_MinVoltage]_vars

\* Passive balancing under way with one cell still to discharge and another
\* already within the tolerance of the smallest voltage, though above it
C14_Witness ==
  /\ simulationCase = 1 /\ phase = "balancing" /\ pc = "idle"
  /\ \E i, j \in DOMAIN cells :
       /\ C14_OCV[i] > C14_MinVoltage + tolVoltage
       /\ C14_OCV[j] > C14_MinVoltage
       /\ C14_OCV[j] <= C14_MinVoltage + tolVoltage

\* C15: an active balancing step (case 2, phase balancing) with the largest
\* and smallest open-circuit voltage more than tolVoltage apart changes exactly
\* two cells: a cell of largest voltage loses dActive and a cell of smallest
\* voltage gains dActive; with a spread of tolVoltage or less no SOC changes.
\* The step then sets phase done exactly when the spread of the new voltages is
\* less than tolVoltage.
C15_ActiveStep ==
  [][(UpdateCalled /\ simulationCase = 2 /\ phase = "balancing") =>
       /\ IF Spread(C14_OCV) > tolVoltage
          THEN \E d, r \in DOMAIN cells :
                 /\ d # r
                 /\ C14_OCV[d] = MaxOf(Range(C14_OCV))
                 /\ C14_OCV[r] = C14_MinVoltage
                 /\ cells' = [cells EXCEPT ![d].SOC = @ - dActive,
                                           ![r].SOC = @ + dActive]
          ELSE cells' = cells
       /\ LET spread == MaxOf({V_MIN + cells'[i].SOC : i \in DOMAIN cells})
                          - MinOf({V_MIN + cells'[i].SOC : i \in DOMAIN cells})
          IN  phase' = IF spread < tolVoltage THEN "done" ELSE "balancing"]_vars

\* Active balancing has moved charge and ended: the 3.5 Ah cell is below
\* full, the 2.5 Ah cell above the 0.64 it had at the trip
C15_Witness ==
  /\ simulationCase = 2 /\ phase = "done" /\ chargingActive = FALSE
  /\ cells[3].SOC < SocOne /\ cells[2].SOC > (64 * SocOne) \div 100
  /\ Spread(C14_OCV) < tolVoltage

\* The voltages measured at I_BASE on the pack after the increment
C16_Voltages ==
  [i \in DOMAIN cells |->
     V_MIN + C13_Charged[i].SOC + (I_BASE * cells[i].R * 14) \div 100]

\* The pack after the increment and a transfer from cell d to cell r
C16_Moved(d, r) ==
  [i \in DOMAIN cells |->
     IF i = d
     THEN [C13_Charged[i] EXCEPT !.SOC = IF @ < dActive THEN 0 ELSE @ - dActive]
     ELSE IF i = r
     THEN [C13_Charged[i] EXCEPT !.SOC =
             IF @ + dActive > SocOne THEN SocOne ELSE @ + dActive]
     ELSE C13_Charged[i]]

\* C16: in a charging step of case 3 every SOC is first incremented and
\* clamped; donor and receiver are the cells of largest and smallest voltage
\* measured at I_BASE on the incremented pack, and dActive moves from donor to
\* receiver (donor not below 0, receiver not above 1) only if these voltages
\* are more than tolVoltage apart; the equalization leaves chargingActive
\* true and does not take the phase to balancing.
C16_EqualizeAfterIncrement ==
  [][(UpdateCalled /\ simulationCase = 3 /\ phase = "charging") =>
       /\ IF Spread(C16_Voltages) > tolVoltage
          THEN \E d, r \in DOMAIN cells :
                 /\ d # r
                 /\ C16_Voltages[d] = MaxOf(Range(C16_Voltages))
                 /\ C16_Voltages[r] = MinOf(Range(C16_Voltages))
                 /\ cells' = C16_Moved(d, r)
          ELSE cells' = C13_Charged
       /\ chargingActive' = chargingActive
       /\ phase' \in {"charging", "done"}]_vars

\* A case-3 charging state in which the increment alone decides the
\* transfer: the voltages are within tolVoltage before the increment and
\* more than tolVoltage apart after it
C16_Witness ==
  /\ simulationCase = 3 /\ phase = "charging" /\ pc = "idle" /\ steps > 0
  /\ steps < MaxSteps
  /\ Spread(Voltages(cells, I_BASE, chargingActive)) <= tolVoltage
  /\ Spread(C16_Voltages) > tolVoltage

\* The current of the end test on pack cs: in case 4 the regulated current,
\* recomputed on cs; in case 3 I_BASE
C17_Current(cs) ==
  IF simulationCase = 4
  THEN IF \E i \in DOMAIN cs : V_MIN + cs[i].SOC + (I_BASE * cs[i].R * 14) \div 100 >= OVP
       THEN I_BASE \div 10
       ELSE I_BASE
  ELSE I_BASE

\* The end test on pack cs: every cell at 0.99 or more and the measured
\* voltages less than tolVoltage apart
C17_Ended(cs) ==
  LET v == {V_MIN + cs[i].SOC + (C17_Current(cs) * cs[i].R * 14) \div 100 : i \in DOMAIN cs}
  IN  /\ \A i \in DOMAIN cs : cs[i].SOC >= SocFull
      /\ MaxOf(v) - MinOf(v) < tolVoltage

\* C17: in cases 3 and 4 a step that starts in phase charging ends in phase
\* done if and only if the pack it leaves has every SOC at 0.99 or more and
\* its measured voltages (at the regulated current in case 4, at I_BASE in
\* case 3) less than tolVoltage apart; otherwise the phase stays charging.
C17_EndCondition ==
  [][(UpdateCalled /\ simulationCase \in {3, 4} /\ phase = "charging") =>
       phase' = IF C17_Ended(cells') THEN "done" ELSE "charging"]_vars

\* A case-3 charging state with a cell at 0.99 or more and the voltages
\* within the tolerance, the run not ended because another cell is below 0.99
C17_Witness ==
  /\ simulationCase = 3 /\ phase = "charging" /\ pc = "idle" /\ steps > 0
  /\ \E i \in DOMAIN cells : cells[i].SOC >= SocFull
  /\ \E i \in DOMAIN cells : cells[i].SOC < SocFull
  /\ Spread(Voltages(cells, I_BASE, chargingActive)) < tolVoltage

\* The current of a charging step from the present state
C18_Current ==
  IF simulationCase = 4
  THEN IF \E i \in DOMAIN cells :
            V_MIN + cells[i].SOC + (I_BASE * cells[i].R * 14) \div 100 >= OVP
       THEN I_BASE \div 10
       ELSE I_BASE
  ELSE I_BASE

\* The pack after the increment: soc := min(1, soc + I_effective / capacity)
C18_Incremented ==
  [i \in DOMAIN cells |->
     LET soc == cells[i].SOC + (C18_Current * SocOne) \div (1000 * cells[i].capacity)
     IN  [cells[i] EXCEPT !.SOC = IF soc > SocOne THEN SocOne ELSE soc]]

\* C18: a step with phase charging and chargingActive true first sets every
\* SOC to min(1, soc + I_effective / capacity), I_effective being I_BASE in
\* cases 1, 2 and 3: in cases 1, 2 and 4 the step leaves the incremented
\* pack, in case 3 the incremented pack or a transfer applied to it.  In
\* that increment a cell of smaller capacity gains more than a cell of larger
\* capacity (2.5 Ah more than 3.0 Ah more than 3.5 Ah) unless it is clamped at 1.
C18_ChargingIncrement ==
  [][(UpdateCalled /\ phase = "charging" /\ chargingActive) =>
       /\ simulationCase \in {1, 2, 3} => C18_Current = I_BASE
       /\ simulationCase \in {1, 2, 4} => cells' = C18_Incremented
       /\ simulationCase = 3 =>
            \/ cells' = C18_Incremented
            \/ \E d, r \in DOMAIN cells :
                 /\ d # r
                 /\ cells' = [C18_Incremented EXCEPT
                                ![d].SOC = IF @ < dActive THEN 0 ELSE @ - dActive,
                                ![r].SOC = IF @ + dActive > SocOne THEN SocOne
                                           ELSE @ + dActive]
       /\ simulationCase # 3 =>
            \A i, j \in DOMAIN cells :
              (cells[i].capacity < cells[j].capacity /\ cells'[i].SOC < SocOne)
                => cells'[i].SOC - cells[i].SOC > cells'[j].SOC - cells[j].SOC
       /\ cells[2].capacity < cells[1].capacity
       /\ cells[1].capacity < cells[3].capacity]_vars

\* A charging state of case 4 in which the 3.5 Ah cell has been clamped at 1
\* while the other two cells are still gaining, at the reduced current
C18_Witness ==
  /\ simulationCase = 4 /\ phase = "charging" /\ chargingActive /\ pc = "idle"
  /\ cells[3].SOC = SocOne /\ cells[1].SOC < SocOne /\ cells[2].SOC < cells[1].SOC
  /\ C18_Current < I_BASE /\ steps > 70

\* C19: in every reachable state phase balancing implies chargingActive
\* false; in cases 1 and 2 chargingActive is true exactly when the phase is
\* charging; in cases 3 and 4 chargingActive is true, phase done included.
C19_ChargingActiveAndPhase ==
  /\ phase = "balancing" => chargingActive = FALSE
  /\ simulationCase \in {1, 2} => (chargingActive = TRUE <=> phase = "charging")
  /\ simulationCase \in {3, 4} => chargingActive = TRUE

\* Both ends of the relation have been reached: a finished run of case 4 with
\* chargingActive still true
C19_Witness ==
  /\ simulationCase = 4 /\ phase = "done" /\ chargingActive = TRUE
  /\ steps > 0 /\ simulationRunning = FALSE

\* C20: in cases 1 and 2 every step taken in phase balancing changes the
\* SOC of some cell or sets phase done, and no reachable balancing state has
\* its open-circuit voltages exactly tolVoltage apart.
C20_BalancingProgress ==
  /\ [][(UpdateCalled /\ simulationCase \in {1, 2} /\ phase = "balancing") =>
          (\E i \in DOMAIN cells : cells'[i].SOC # cells[i].SOC) \/ phase' = "done"]_vars
  /\ [](simulationCase \in {1, 2} /\ phase = "balancing" =>
          Spread(C14_OCV) # tolVoltage)

\* A balancing state less than one balancing step above the tolerance
C20_Witness ==
  /\ simulationCase \in {1, 2} /\ phase = "balancing" /\ pc = "idle"
  /\ Spread(C14_OCV) > tolVoltage
  /\ Spread(C14_OCV) < tolVoltage + dPassive

\* C21: a run of case 2 and a run of case 4 reach phase done after finitely
\* many steps (fewer than MaxSteps calls of updateSimulation: no state with
\* MaxSteps calls made is in another phase than done); case 2 enters done from
\* balancing, case 4 enters it from charging and is never in phase balancing.
C21_Cases24Terminate ==
  /\ [](simulationCase \in {2, 4} /\ phase # "done" => steps < MaxSteps)
  /\ [](simulationCase = 4 => phase # "balancing")
  /\ [][(simulationCase = 2 /\ InRun /\ phase # "done" /\ phase' = "done")
          => phase = "balancing"]_vars
  /\ [][(simulationCase = 4 /\ InRun /\ phase # "done" /\ phase' = "done")
          => phase = "charging"]_vars

\* The loop of a case-4 run has stopped at phase done, after a stretch of
\* charging at the reduced current
C21_Witness ==
  /\ simulationCase = 4 /\ phase = "done" /\ simulationRunning = FALSE
  /\ pending = 0 /\ steps > 1000

\* The sum of the SOC values of pack cs
C22_Sum(cs) == cs[1].SOC + cs[2].SOC + cs[3].SOC

C23_Regulating == simulationCase = 4 /\ C18_Current = I_BASE \div 10

\* C23: in a run of case 4, once the current of a step is the reduced
\* current I_BASE * 0.1, the current of every later step of that run is the
\* reduced current too: regulation, once on, stays on until the next reset,
\* and each step taken under it charges by the reduced current.
C23_RegulationLatched ==
  /\ [][(C23_Regulating /\ InRun) => C23_Regulating']_vars
  /\ [][(UpdateCalled /\ C23_Regulating /\ phase = "charging") =>
          \A i \in DOMAIN cells :
            cells'[i].SOC - cells[i].SOC <=
              ((I_BASE \div 10) * SocOne) \div (1000 * cells[i].capacity)]_vars

\* Far into a case-4 run: still charging, at the reduced current, a thousand
\* steps after the regulation began
C23_Witness ==
  /\ C23_Regulating /\ phase = "charging" /\ pc = "idle" /\ steps > 1070
  /\ \E i \in DOMAIN cells : cells[i].SOC < SocFull

\* The increment of the next charging step would be clamped at 1 for cell i
C24_Clamped(i) ==
  cells[i].SOC + (I_BASE * SocOne) \div (1000 * cells[i].capacity) > SocOne

\* C24: in a run of case 3 every cell's SOC after a charging step is at
\* least its SOC before the step, the donor of a transfer included.  The
\* donor is never a cell that the increment clamped at 1: in a run of case 3
\* no increment is clamped.
C24_Case3Monotone ==
  /\ [][(UpdateCalled /\ simulationCase = 3 /\ phase = "charging") =>
          \A i \in DOMAIN cells : cells'[i].SOC >= cells[i].SOC]_vars
  /\ [](simulationCase = 3 /\ phase = "charging" =>
          \A i \in DOMAIN cells : ~C24_Clamped(i))

\* A case-3 charging state whose step applies a transfer, the donor being a
\* cell whose increment exceeds dActive by less than dActive
C24_Witness ==
  /\ simulationCase = 3 /\ phase = "charging" /\ pc = "idle" /\ steps > 0
  /\ steps < MaxSteps
  /\ Spread(C16_Voltages) > tolVoltage
  /\ LET d == MaxIndex(C16_Voltages)
     IN  /\ C13_Charged[d].SOC - dActive > cells[d].SOC
         /\ C13_Charged[d].SOC - 2 * dActive < cells[d].SOC

----------------------------------------------------------------------------
\* The standalone passive-balancing page (src/passive.js, and the same page
\* as a document in src/unnamed/part_000).  It has the constants, the pack and
\* the driver of the main page, no case selector, and an updateSimulation of
\* its own.  Its globals are held in phase, chargingActive, cells,
\* simulationRunning; simulationCase is not a variable of this page, and
\* keeps the value 1, the case the page is compared with.

passive_initCells ==
  << [capacity |-> 30, SOC |-> 1176000, R |-> 50],
     [capacity |-> 25, SOC |-> 840000,  R |-> 80],
     [capacity |-> 35, SOC |-> 1512000, R |-> 30] >>

passive_getOCV(cell) == V_MIN + ((V_MAX - V_MIN) \div SocOne) * cell.SOC

passive_getMeasuredVoltage(cell, current, active) ==
  passive_getOCV(cell) + (IF active THEN (current * cell.R * 14) \div 100 ELSE 0)

\* The globals of the page that updateSimulation reads and writes
PassiveState ==
  [phase |-> phase, chargingActive |-> chargingActive, cells |-> cells]

\* The charging loop: no test of chargingActive
passive_Charge(s) ==
  [s EXCEPT !.cells =
     [i \in DOMAIN s.cells |->
        LET soc == s.cells[i].SOC + (I_BASE * SocOne) \div (1000 * s.cells[i].capacity)
        IN  [s.cells[i] EXCEPT !.SOC = IF soc > SocOne THEN SocOne ELSE soc]]]

\* Mutant: the trip changes the phase and leaves chargingActive as it is
passive_TripPhaseOnly(s) ==
  IF \E i \in DOMAIN s.cells :
       passive_getMeasuredVoltage(s.cells[i], I_BASE, s.chargingActive) >= OVP
  THEN [s EXCEPT !.phase = "balancing"]
  ELSE s

passive_Trip(s) ==
  IF \E i \in DOMAIN s.cells :
       passive_getMeasuredVoltage(s.cells[i], I_BASE, s.chargingActive) >= OVP
  THEN [s EXCEPT !.chargingActive = FALSE, !.phase = "balancing"]
  ELSE s

\* The balancing loop: the voltages are those of the array measuredVoltages,
\* taken before the loop
passive_Balance(s) ==
  LET measuredVoltages ==
        [i \in DOMAIN s.cells |->
           passive_getMeasuredVoltage(s.cells[i], 0, s.chargingActive)]
      minVoltage == MinOf(Range(measuredVoltages))
  IN  [s EXCEPT !.cells =
         [i \in DOMAIN s.cells |->
            IF measuredVoltages[i] > minVoltage + tolVoltage
            THEN [s.cells[i] EXCEPT !.SOC =
                    IF @ - dPassive < 0 THEN 0 ELSE @ - dPassive]
            ELSE s.cells[i]]]

passive_Done(s) ==
  LET measuredVoltages ==
        [i \in DOMAIN s.cells |->
           passive_getMeasuredVoltage(s.cells[i], 0, s.chargingActive)]
  IN  IF MaxOf(Range(measuredVoltages)) - MinOf(Range(measuredVoltages)) < tolVoltage
      THEN [s EXCEPT !.phase = "done"]
      ELSE s

passive_updateSimulation(s) ==
  IF s.phase = "charging" THEN passive_Trip(passive_Charge(s))
  ELSE IF s.phase = "balancing" THEN passive_Done(passive_Balance(s))
  ELSE s

\* The assignments of the page's resetSimulation before its call of animate
passive_ResetState ==
  [phase |-> "charging", chargingActive |-> TRUE, cells |-> passive_initCells]

passive_animate(s, running, pend) ==
  IF ~running
  THEN [s |-> s, running |-> running, pend |-> pend]
  ELSE LET t == passive_updateSimulation(s)
       IN  IF t.phase # "done"
           THEN [s |-> t, running |-> TRUE, pend |-> pend + 1]
           ELSE [s |-> t, running |-> FALSE, pend |-> pend]

SetPassive(s) ==
  /\ phase' = s.phase
  /\ chargingActive' = s.chargingActive
  /\ cells' = s.cells
  /\ UNCHANGED simulationCase

\* The page as loaded: resetSimulation() at the end of the script
PassiveInit ==
  LET r == passive_animate(passive_ResetState, TRUE, 0)
  IN  /\ simulationCase = 1
      /\ phase = r.s.phase
      /\ chargingActive = r.s.chargingActive
      /\ cells = r.s.cells
      /\ simulationRunning = r.running
      /\ pending = r.pend
      /\ pc = "idle"
      /\ steps = 1
      /\ doneCalls = 0

\* resetSimulation of the page up to its call of animate
passive_resetSimulation ==
  /\ pc = "idle"
  /\ pending < MaxPending
  /\ SetPassive(passive_ResetState)
  /\ simulationRunning' = TRUE
  /\ pc' = "reset"
  /\ steps' = 0
  /\ doneCalls' = 0
  /\ UNCHANGED pending

\* the call of animate that ends resetSimulation
passive_resetAnimate ==
  /\ pc = "reset"
  /\ LET r == passive_animate(PassiveState, simulationRunning, pending)
     IN  /\ SetPassive(r.s)
         /\ simulationRunning' = r.running
         /\ pending' = r.pend
  /\ pc' = "idle"
  /\ CountCall

\* a pending animate callback of the page runs
passive_animateFrame ==
  /\ pc = "idle"
  /\ pending > 0
  /\ simulationRunning => CallAllowed
  /\ LET r == passive_animate(PassiveState, simulationRunning, pending - 1)
     IN  /\ SetPassive(r.s)
         /\ simulationRunning' = r.running
         /\ pending' = r.pend
  /\ IF simulationRunning THEN CountCall ELSE UNCHANGED <<steps, doneCalls>>
  /\ UNCHANGED pc

PassiveNext ==
  \/ passive_resetSimulation
  \/ passive_resetAnimate
  \/ passive_animateFrame

SpecPassive == PassiveInit /\ [][PassiveNext]_vars

\* The same page as the document src/unnamed/part_000
part000_initCells ==
  << [capacity |-> 30, SOC |-> 1176000, R |-> 50],
     [capacity |-> 25, SOC |-> 840000,  R |-> 80],
     [capacity |-> 35, SOC |-> 1512000, R |-> 30] >>

part000_ResetState ==
  [phase |-> "charging", chargingActive |-> TRUE, cells |-> part000_initCells]

part000_getMeasuredVoltage(cell, current, active) ==
  V_MIN + ((V_MAX - V_MIN) \div SocOne) * cell.SOC
    + (IF active THEN (current * cell.R * 14) \div 100 ELSE 0)

part000_updateSimulation(s) ==
  IF s.phase = "charging"
  THEN LET charged ==
             [i \in DOMAIN s.cells |->
                LET soc == s.cells[i].SOC
                             + (I_BASE * SocOne) \div (1000 * s.cells[i].capacity)
                IN  [s.cells[i] EXCEPT !.SOC = IF soc > SocOne THEN SocOne ELSE soc]]
           overvoltage ==
             \E i \in DOMAIN charged :
               part000_getMeasuredVoltage(charged[i], I_BASE, s.chargingActive) >= OVP
       IN  IF overvoltage
           THEN [phase |-> "balancing", chargingActive |-> FALSE, cells |-> charged]
           ELSE [s EXCEPT !.cells = charged]
  ELSE IF s.phase = "balancing"
  THEN LET measuredVoltages ==
             [i \in DOMAIN s.cells |->
                part000_getMeasuredVoltage(s.cells[i], 0, s.chargingActive)]
           minVoltage == MinOf(Range(measuredVoltages))
           bled ==
             [i \in DOMAIN s.cells |->
                IF measuredVoltages[i] > minVoltage + tolVoltage
                THEN [s.cells[i] EXCEPT !.SOC =
                        IF @ - dPassive < 0 THEN 0 ELSE @ - dPassive]
                ELSE s.cells[i]]
           after ==
             {part000_getMeasuredVoltage(bled[i], 0, s.chargingActive) : i \in DOMAIN bled}
       IN  [s EXCEPT !.cells = bled,
                     !.phase = IF MaxOf(after) - MinOf(after) < tolVoltage
                               THEN "done" ELSE "balancing"]
  ELSE s

\* The main page's updateSimulation with simulationCase = 1, applied to the
\* globals s of the standalone page
C25_Index(s) ==
  LET t == updateSimulation([simulationCase |-> 1, phase |-> s.phase,
                             chargingActive |-> s.chargingActive, cells |-> s.cells])
  IN  [phase |-> t.phase, chargingActive |-> t.chargingActive, cells |-> t.cells]

\* C25: started from reset, the updateSimulation of the standalone page
\* (src/passive.js, src/unnamed/part_000) and the updateSimulation of the main
\* page with simulationCase = 1 give the same phase, chargingActive and SOC
\* values after every number of steps: the reset states are the same, and
\* from every state the standalone page reaches, one call of each of the three
\* functions gives the same state.
C25_PassiveEquivalent ==
  /\ [](pc = "reset" =>
          /\ PassiveState = [phase |-> ResetState(1).phase,
                             chargingActive |-> ResetState(1).chargingActive,
                             cells |-> ResetState(1).cells]
          /\ PassiveState = part000_ResetState)
  /\ [][UpdateCalled =>
          /\ PassiveState' = C25_Index(PassiveState)
          /\ PassiveState' = part000_updateSimulation(PassiveState)]_vars
  /\ [](steps = 1 =>
          /\ PassiveState = C25_Index(passive_ResetState)
          /\ PassiveState = part000_updateSimulation(part000_ResetState))

\* The standalone page has ended its run through the trip and the balancing
C25_Witness ==
  /\ phase = "done" /\ chargingActive = FALSE /\ simulationRunning = FALSE
  /\ steps > 70 /\ cells[2].SOC > initCells[2].SOC
  /\ cells[3].SOC < SocOne

====
